---- MODULE Spec2Model ----
(***************************************************************************)
(* Model of src/app.py: the statement parser parse_bank_statement and the  *)
(* date normalizer convert_date_format.                                    *)
(*                                                                         *)
(* Python strings are TLA+ strings; a character is a string of length 1.   *)
(* A position is the 1-based index of the next character to consume.       *)
(* A regular expression is modelled by what Python's backtracking matcher  *)
(* does: every quantifier yields its candidate end positions in the order  *)
(* the matcher tries them (greedy: longest first, lazy: shortest first,    *)
(* alternation: left to right) and the match is the first candidate whose  *)
(* continuation succeeds.                                                  *)
(* An optional Python value is a sequence: None is <<>>, a value v is <<v>>*)
(* A float holding an amount is its number of hundredths (an integer).     *)
(* The alphabet is ASCII: \d is 0-9 and \s is space, \t, \n, \r, \f.       *)
(***************************************************************************)
EXTENDS Integers, Sequences, FiniteSets, TLC

None == <<>>
Some(v) == <<v>>

\* s[a-1:b] of Python, for 1-based a and b: out-of-range indices are clipped.
Sub(s, a, b) ==
  LET lo == IF a < 1 THEN 1 ELSE a
      hi == IF b > Len(s) THEN Len(s) ELSE b
  IN  IF lo > hi THEN "" ELSE SubSeq(s, lo, hi)

Ch(s, p) == IF p >= 1 /\ p <= Len(s) THEN SubSeq(s, p, p) ELSE ""

IsDigit(c) == c \in {"0", "1", "2", "3", "4", "5", "6", "7", "8", "9"}

IsUpper(c) ==
  c \in {"A", "B", "C", "D", "E", "F", "G", "H", "I", "J", "K", "L", "M",
         "N", "O", "P", "Q", "R", "S", "T", "U", "V", "W", "X", "Y", "Z"}

\* \s
IsSpace(c) == c \in {" ", "\t", "\n", "\r", "\f"}

\* [A-Z0-9]
IsRefChar(c) == IsUpper(c) \/ IsDigit(c)

\* . (without DOTALL): any character but the line break
IsDot(c) == c # "" /\ c # "\n"

\* [\d,]
IsDigitOrComma(c) == IsDigit(c) \/ c = ","

DigitVal(c) ==
  CASE c = "0" -> 0 [] c = "1" -> 1 [] c = "2" -> 2 [] c = "3" -> 3
    [] c = "4" -> 4 [] c = "5" -> 5 [] c = "6" -> 6 [] c = "7" -> 7
    [] c = "8" -> 8 [] c = "9" -> 9

DigitChar(n) == SubSeq("0123456789", n + 1, n + 1)

\* The number of characters from position p on that lie in the class In.
RunLen(s, p, In(_)) ==
  LET RECURSIVE Run(_)
      Run(q) == IF q <= Len(s) /\ In(Ch(s, q)) THEN 1 + Run(q + 1) ELSE 0
  IN  Run(p)

\* X{min,} greedy over a character class: ends, longest first.
GreedyEnds(s, p, In(_), min) ==
  LET n == RunLen(s, p, In)
  IN  [k \in 1..(n - min + 1) |-> p + n - (k - 1)]

\* X*? lazy over a character class: ends, shortest first.
LazyEnds(s, p, In(_)) ==
  LET n == RunLen(s, p, In)
  IN  [k \in 1..(n + 1) |-> p + (k - 1)]

\* A literal at p: its end, or no candidate.
LitEnds(s, p, lit) ==
  IF Sub(s, p, p + Len(lit) - 1) = lit
  THEN <<p + Len(lit)>> ELSE <<>>

\* \d{n} at p
DigitsAt(s, p, n) == \A k \in 0..(n - 1) : IsDigit(Ch(s, p + k))

DigitsEnds(s, p, n) == IF DigitsAt(s, p, n) THEN <<p + n>> ELSE <<>>

\* Backtracking: the result of the first candidate on which the rest of the
\* pattern, K, succeeds; a result is None (failure) or Some(match).
OrElse(r, rest) == IF r # None THEN r ELSE rest

FirstOk(cands, K(_)) ==
  LET RECURSIVE Try(_)
      Try(i) == IF i > Len(cands) THEN None
                ELSE OrElse(K(cands[i]), Try(i + 1))
  IN  Try(1)

\* All candidates of a sub-pattern followed by another, in trial order.
ThenEnds(cands, K(_)) ==
  LET RECURSIVE All(_)
      All(i) == IF i > Len(cands) THEN <<>> ELSE K(cands[i]) \o All(i + 1)
  IN  All(1)

\* str.replace(',', '')
RECURSIVE StripCommas(_)
StripCommas(s) ==
  IF s = "" THEN ""
  ELSE IF Ch(s, 1) = "," THEN StripCommas(Sub(s, 2, Len(s)))
       ELSE Ch(s, 1) \o StripCommas(Sub(s, 2, Len(s)))

\* str.strip()
PyStrip(s) ==
  LET lead == RunLen(s, 1, IsSpace)
      RECURSIVE Trail(_)
      Trail(e) == IF e >= 1 /\ IsSpace(Ch(s, e)) THEN Trail(e - 1) ELSE e
  IN  IF lead = Len(s) THEN "" ELSE Sub(s, lead + 1, Trail(Len(s)))

\* sub in s
PyIn(sub, s) ==
  \E p \in 1..(Len(s) - Len(sub) + 1) : Sub(s, p, p + Len(sub) - 1) = sub

\* s.split('\n')
RECURSIVE PySplitLines(_)
PySplitLines(s) ==
  LET n == RunLen(s, 1, IsDot)
  IN  IF n = Len(s) THEN <<s>>
      ELSE <<Sub(s, 1, n)>> \o PySplitLines(Sub(s, n + 2, Len(s)))

\* int(s) of a run of decimal digits; surrounding blanks are ignored, as int does.
DecVal(s) ==
  LET t == PyStrip(s)
      RECURSIVE Val(_)
      Val(k) == IF k = 0 THEN 0 ELSE 10 * Val(k - 1) + DigitVal(Ch(t, k))
  IN  Val(Len(t))

\* float(s) for s made of digits and at most one point: Some(hundredths), or
\* None when float raises ValueError (no digit at all, or another character).
\* Every string the parser converts has exactly two fraction digits.
PyFloat(s) ==
  LET i == RunLen(s, 1, IsDigit)
      f == RunLen(s, i + 2, IsDigit)
      frac == IF f = 0 THEN 0
              ELSE IF f = 1 THEN 10 * DigitVal(Ch(s, i + 2))
              ELSE DecVal(Sub(s, i + 2, i + 3))
  IN  IF i = Len(s) THEN (IF i > 0 THEN Some(100 * DecVal(s)) ELSE None)
      ELSE IF Ch(s, i + 1) = "." /\ i + 1 + f = Len(s) /\ i + f > 0
           THEN Some(100 * DecVal(Sub(s, 1, i)) + frac)
           ELSE None

(***************************************************************************)
(* convert_date_format and the part of datetime.strptime / strftime it     *)
(* relies on.                                                              *)
(***************************************************************************)

\* %d of strptime: 3[0-1]|[1-2]\d|0[1-9]|[1-9]| [1-9]
DayEnds(s, p) ==
  LET c1 == Ch(s, p)
      c2 == Ch(s, p + 1)
  IN  (IF c1 = "3" /\ c2 \in {"0", "1"} THEN <<p + 2>> ELSE <<>>)
   \o (IF c1 \in {"1", "2"} /\ IsDigit(c2) THEN <<p + 2>> ELSE <<>>)
   \o (IF c1 = "0" /\ IsDigit(c2) /\ c2 # "0" THEN <<p + 2>> ELSE <<>>)
   \o (IF IsDigit(c1) /\ c1 # "0" THEN <<p + 1>> ELSE <<>>)
   \o (IF c1 = " " /\ IsDigit(c2) /\ c2 # "0" THEN <<p + 2>> ELSE <<>>)

\* %m of strptime: 1[0-2]|0[1-9]|[1-9]
MonthEnds(s, p) ==
  LET c1 == Ch(s, p)
      c2 == Ch(s, p + 1)
  IN  (IF c1 = "1" /\ c2 \in {"0", "1", "2"} THEN <<p + 2>> ELSE <<>>)
   \o (IF c1 = "0" /\ IsDigit(c2) /\ c2 # "0" THEN <<p + 2>> ELSE <<>>)
   \o (IF IsDigit(c1) /\ c1 # "0" THEN <<p + 1>> ELSE <<>>)

IsLeap(y) == y % 4 = 0 /\ (y % 100 # 0 \/ y % 400 = 0)

DaysInMonth(y, m) ==
  IF m = 2 THEN (IF IsLeap(y) THEN 29 ELSE 28)
  ELSE IF m \in {4, 6, 9, 11} THEN 30 ELSE 31

\* The year a two-digit %y stands for (POSIX: 69-99 are 19xx, 00-68 are 20xx).
CenturyOf(yy) == IF yy <= 68 THEN 2000 + yy ELSE 1900 + yy

\* datetime.strptime(date_str, "%d/%m/<year>"): Some([year, month, day]), or
\* None for ValueError. The format's regular expression is matched at the
\* start; text left over, or a day the month does not have, is an error.
\* ylen is 2 for %y and 4 for %Y.
StrptimeFound(date_str, ylen) ==
  FirstOk(DayEnds(date_str, 1), LAMBDA e1 :
  FirstOk(LitEnds(date_str, e1, "/"), LAMBDA e2 :
  FirstOk(MonthEnds(date_str, e2), LAMBDA e3 :
  FirstOk(LitEnds(date_str, e3, "/"), LAMBDA e4 :
  FirstOk(DigitsEnds(date_str, e4, ylen), LAMBDA e5 :
    Some([d |-> DecVal(Sub(date_str, 1, e1 - 1)),
          m |-> DecVal(Sub(date_str, e2, e3 - 1)),
          y |-> IF ylen = 2 THEN CenturyOf(DecVal(Sub(date_str, e4, e5 - 1)))
                ELSE DecVal(Sub(date_str, e4, e5 - 1)),
          end |-> e5]))))))

StrptimeDate(date_str, found) ==
  IF found = None THEN None
  ELSE IF found[1].end # Len(date_str) + 1 THEN None
  ELSE IF found[1].y < 1 \/ found[1].d > DaysInMonth(found[1].y, found[1].m)
       THEN None
  ELSE Some([year |-> found[1].y, month |-> found[1].m, day |-> found[1].d])

Strptime(date_str, ylen) ==
  StrptimeDate(date_str, StrptimeFound(date_str, ylen))

Pad2(n) == DigitChar(n \div 10) \o DigitChar(n % 10)

Pad4(n) == Pad2(n \div 100) \o Pad2(n % 100)

\* str(n) for 1 <= n <= 9999
Unpadded(n) ==
  IF n >= 1000 THEN Pad4(n)
  ELSE IF n >= 100 THEN DigitChar(n \div 100) \o Pad2(n % 100)
  ELSE IF n >= 10 THEN Pad2(n)
  ELSE DigitChar(n)

\* date_obj.strftime("%Y-%m-%d"). %Y of a year below 1000 is what the C
\* library makes of it: four digits on some platforms, no padding on others
\* (pads says which).
Strftime(date, pads) ==
  (IF pads \/ date.year >= 1000 THEN Pad4(date.year) ELSE Unpadded(date.year))
    \o "-" \o Pad2(date.month) \o "-" \o Pad2(date.day)

\* A mutant: the token is returned as it came, never reformatted.
convert_date_format_identity(date_str, pads) == date_str

\* two and four are the outcomes of the two calls of strptime.
FirstParsed(date_str, pads, two, four) ==
  IF two # None THEN Strftime(two[1], pads)
  ELSE IF four # None THEN Strftime(four[1], pads)
  ELSE date_str

\* A mutant: the second format, with the four-digit year, is not tried.
convert_date_format_first_only(date_str, pads) ==
  FirstParsed(date_str, pads, Strptime(date_str, 2), None)

convert_date_format(date_str, pads) ==
  FirstParsed(date_str, pads, Strptime(date_str, 2), Strptime(date_str, 4))

(***************************************************************************)
(* transaction_pattern                                                     *)
(***************************************************************************)

\* \d{2}/\d{2}/\d{2}
DateTokenEnds(s, p) ==
  IF /\ DigitsAt(s, p, 2) /\ Ch(s, p + 2) = "/"
     /\ DigitsAt(s, p + 3, 2) /\ Ch(s, p + 5) = "/"
     /\ DigitsAt(s, p + 6, 2)
  THEN <<p + 8>> ELSE <<>>

\* \d{1,3}(?:,\d{3})*\.\d{2}
AmountEnds(s, p) ==
  LET n == IF RunLen(s, p, IsDigit) > 3 THEN 3 ELSE RunLen(s, p, IsDigit)
      lead == [k \in 1..n |-> p + n - (k - 1)]
      RECURSIVE Groups(_)
      Groups(q) ==
        (IF Ch(s, q) = "," /\ DigitsAt(s, q + 1, 3)
         THEN Groups(q + 4) ELSE <<>>)
        \o (IF Ch(s, q) = "." /\ DigitsAt(s, q + 1, 2)
            THEN <<q + 3>> ELSE <<>>)
  IN  ThenEnds(lead, LAMBDA q : Groups(q))

\* \d{1,3}(?:,\d{3})*\.\d{2}|0\.00
AmountOrZeroEnds(s, p) == AmountEnds(s, p) \o LitEnds(s, p, "0.00")

\* (...)? greedy: each way of matching the group, then the group absent.
\* A candidate is the capture (None when absent) and the end.
Captures(s, p, ends) ==
  [k \in 1..Len(ends) |-> [cap |-> Some(Sub(s, p, ends[k] - 1)), end |-> ends[k]]]

Optional(s, p, ends) == Captures(s, p, ends) \o <<[cap |-> None, end |-> p]>>

\* (?=\d{1,3}(?:,\d{3})*\.\d{2}|0\.00|\s+\d{1,3}(?:,\d{3})*\.\d{2})
Lookahead(s, p) ==
  \/ AmountEnds(s, p) # <<>>
  \/ LitEnds(s, p, "0.00") # <<>>
  \/ ThenEnds(GreedyEnds(s, p, IsSpace, 1), LAMBDA q : AmountEnds(s, q)) # <<>>

\* transaction_pattern.match(s): None, or Some of the seven groups.
transaction_pattern_match(s) ==
  FirstOk(DateTokenEnds(s, 1), LAMBDA e1 :
  FirstOk(GreedyEnds(s, e1, IsSpace, 1), LAMBDA e2 :
  FirstOk(DateTokenEnds(s, e2), LAMBDA e3 :
  FirstOk(GreedyEnds(s, e3, IsSpace, 1), LAMBDA e4 :
  FirstOk(LazyEnds(s, e4, IsDot), LAMBDA e5 :
  FirstOk(GreedyEnds(s, e5, IsSpace, 1), LAMBDA e6 :
    IF ~Lookahead(s, e6) THEN None ELSE
  FirstOk(Optional(s, e6, GreedyEnds(s, e6, IsRefChar, 1)), LAMBDA ref :
  FirstOk(GreedyEnds(s, ref.end, IsSpace, 0), LAMBDA e8 :
  FirstOk(Optional(s, e8, AmountOrZeroEnds(s, e8)), LAMBDA wd :
  FirstOk(GreedyEnds(s, wd.end, IsSpace, 1), LAMBDA e10 :
  FirstOk(Optional(s, e10, AmountOrZeroEnds(s, e10)), LAMBDA dep :
  FirstOk(GreedyEnds(s, dep.end, IsSpace, 1), LAMBDA e12 :
  FirstOk(AmountEnds(s, e12), LAMBDA e13 :
    Some([trans_date |-> Sub(s, 1, e1 - 1),
          post_date |-> Sub(s, e2, e3 - 1),
          description |-> Sub(s, e4, e5 - 1),
          ref_no |-> ref.cap,
          withdraw |-> wd.cap,
          deposit |-> dep.cap,
          balance |-> Sub(s, e12, e13 - 1)]))))))))))))))

(***************************************************************************)
(* parse_bank_statement: the account information                           *)
(***************************************************************************)

\* re.search: the match at the first start position that has one.
Leftmost(hits, K(_)) ==
  IF hits = {} THEN None ELSE K(CHOOSE p \in hits : \A q \in hits : p <= q)

Search(s, K(_)) == Leftmost({p \in 1..(Len(s) + 1) : K(p) # None}, K)

\* \d{2}/\d{2}/\d{4}
PeriodDateEnds(s, p) ==
  IF /\ DigitsAt(s, p, 2) /\ Ch(s, p + 2) = "/"
     /\ DigitsAt(s, p + 3, 2) /\ Ch(s, p + 5) = "/"
     /\ DigitsAt(s, p + 6, 4)
  THEN <<p + 10>> ELSE <<>>

\* re.search(label + r"\s+(.*?)\n", text): None or Some(group 1)
LabelledLine(text, label) ==
  Search(text, LAMBDA p :
  FirstOk(LitEnds(text, p, label), LAMBDA e1 :
  FirstOk(GreedyEnds(text, e1, IsSpace, 1), LAMBDA e2 :
  FirstOk(LazyEnds(text, e2, IsDot), LAMBDA e3 :
  FirstOk(LitEnds(text, e3, "\n"), LAMBDA e4 :
    Some(Sub(text, e2, e3 - 1)))))))

\* re.search(r"Account No\s+(\d+)", text): None or Some(group 1)
AccountNoMatch(text) ==
  Search(text, LAMBDA p :
  FirstOk(LitEnds(text, p, "Account No"), LAMBDA e1 :
  FirstOk(GreedyEnds(text, e1, IsSpace, 1), LAMBDA e2 :
  FirstOk(GreedyEnds(text, e2, IsDigit, 1), LAMBDA e3 :
    Some(Sub(text, e2, e3 - 1))))))

\* re.search(r"Account Statement for the period of\s+(\d{2}/\d{2}/\d{4})
\*            \s+to\s+(\d{2}/\d{2}/\d{4})", text): None or Some(<<g1, g2>>)
PeriodMatch(text) ==
  Search(text, LAMBDA p :
  FirstOk(LitEnds(text, p, "Account Statement for the period of"), LAMBDA e1 :
  FirstOk(GreedyEnds(text, e1, IsSpace, 1), LAMBDA e2 :
  FirstOk(PeriodDateEnds(text, e2), LAMBDA e3 :
  FirstOk(GreedyEnds(text, e3, IsSpace, 1), LAMBDA e4 :
  FirstOk(LitEnds(text, e4, "to"), LAMBDA e5 :
  FirstOk(GreedyEnds(text, e5, IsSpace, 1), LAMBDA e6 :
  FirstOk(PeriodDateEnds(text, e6), LAMBDA e7 :
    Some(<<Sub(text, e2, e3 - 1), Sub(text, e6, e7 - 1)>>)))))))))

BankName == "Islami Bank Bangladesh PLC."

\* A mutant: a label that is not found gives an empty string.
StripOrEmpty(m) == IF m # None THEN Some(PyStrip(m[1])) ELSE Some("")

\* m.group(1).strip() if m else None
StripOrNone(m) == IF m # None THEN Some(PyStrip(m[1])) ELSE None

\* A mutant: the else branch that sets a null statement period is missing.
AccountInfoNoElse(text, period_match, pads) ==
  IF period_match # None
  THEN [bank |-> BankName,
        account_holder |-> StripOrNone(LabelledLine(text, "Name")),
        account_number |-> AccountNoMatch(text),
        account_type |-> StripOrNone(LabelledLine(text, "Account Type")),
        statement_period |->
          [start_date |-> Some(convert_date_format(PyStrip(period_match[1][1]), pads)),
           end_date |-> Some(convert_date_format(PyStrip(period_match[1][2]), pads))]]
  ELSE [bank |-> BankName,
        account_holder |-> StripOrNone(LabelledLine(text, "Name")),
        account_number |-> AccountNoMatch(text),
        account_type |-> StripOrNone(LabelledLine(text, "Account Type"))]

\* The dictionary account_info after the try block. No statement of the
\* block raises on a str (re.search and str.strip do not, and
\* convert_date_format catches the ValueError of strptime), so the except
\* branch is never entered. address_match is computed and not used.
\* period_match is the outcome of the search for the statement period.
AccountInfoOf(text, period_match, pads) ==
  [bank |-> BankName,
   account_holder |-> StripOrNone(LabelledLine(text, "Name")),
   account_number |-> AccountNoMatch(text),
   account_type |-> StripOrNone(LabelledLine(text, "Account Type")),
   statement_period |->
     IF period_match # None
     THEN [start_date |-> Some(convert_date_format(PyStrip(period_match[1][1]), pads)),
           end_date |-> Some(convert_date_format(PyStrip(period_match[1][2]), pads))]
     ELSE [start_date |-> None, end_date |-> None]]

(***************************************************************************)
(* parse_bank_statement: one line of the transaction loop                  *)
(***************************************************************************)

\* The test that skips a line before the pattern is tried.
SkipLine(line) ==
  \/ PyIn("Trans Date", line)
  \/ PyIn("Post Date", line)
  \/ PyIn("Report taken on", line)
  \/ PyIn("B/F", line)
  \/ PyIn("Page", line)
  \/ PyStrip(line) = ""

\* (group or "0.00").strip().replace(',', '') for an optional group
CleanAmount(cap) ==
  StripCommas(PyStrip(IF cap = None \/ cap[1] = "" THEN "0.00" ELSE cap[1]))

\* float(x) if x else 0.00
FloatOrZero(x) == IF x # "" THEN PyFloat(x) ELSE Some(0)

\* The dictionary appended for a match, or None when a float() raised and
\* the except branch dropped the line.
\* withdraw, deposit and balance are the outcomes of the three float().
TransactionDict(g, withdraw, deposit, balance) ==
      IF withdraw = None \/ deposit = None \/ balance = None THEN None
      \* the year of a \d{2} token is 1969 to 2068: its %Y has four digits
      \* whatever the platform
      ELSE Some([date |-> convert_date_format(g.trans_date, FALSE),
                 post_date |-> convert_date_format(g.post_date, FALSE),
                 description |-> PyStrip(g.description),
                 reference |-> IF g.ref_no # None /\ g.ref_no[1] # ""
                               THEN Some(PyStrip(g.ref_no[1])) ELSE None,
                 withdrawal |-> withdraw[1],
                 deposit |-> deposit[1],
                 balance |-> balance[1]])

TransactionOf(g) ==
  TransactionDict(g, FloatOrZero(CleanAmount(g.withdraw)),
                  FloatOrZero(CleanAmount(g.deposit)),
                  FloatOrZero(CleanAmount(Some(g.balance))))

\* transactions.append(...) when the line matched and no float() raised
AppendMatch(acc, match) ==
  IF match = None THEN acc ELSE acc \o TransactionOf(match[1])

\* A mutant: the marker "Page" is not tested.
LoopBodyNoPage(acc, line) ==
  IF \/ PyIn("Trans Date", line) \/ PyIn("Post Date", line)
     \/ PyIn("Report taken on", line) \/ PyIn("B/F", line)
     \/ PyStrip(line) = ""
  THEN acc
  ELSE AppendMatch(acc, transaction_pattern_match(PyStrip(line)))

\* A mutant: a line that does not match empties the list.
AppendOrReset(acc, match) ==
  IF match = None THEN <<>> ELSE acc \o TransactionOf(match[1])

LoopBodyReset(acc, line) ==
  IF SkipLine(line) THEN acc
  ELSE AppendOrReset(acc, transaction_pattern_match(PyStrip(line)))

\* The body of "for line in lines": the list transactions after the
\* iteration on line, from the list acc before it.
LoopBody(acc, line) ==
  IF SkipLine(line) THEN acc
  ELSE AppendMatch(acc, transaction_pattern_match(PyStrip(line)))

(***************************************************************************)
(* parse_bank_statement: the totals                                        *)
(***************************************************************************)

IsCommaOrSpace(c) == c = "," \/ IsSpace(c)

\* [\d,]+\.\d{2}: ends in trial order
TotalNumberEnds(s, p) ==
  ThenEnds(GreedyEnds(s, p, IsDigitOrComma, 1), LAMBDA q :
    IF Ch(s, q) = "." /\ DigitsAt(s, q + 1, 2) THEN <<q + 3>> ELSE <<>>)

\* re.search(r"^\s*(?:,*\s*)*TOTAL\s+([\d,]+\.\d{2})\s+([\d,]+\.\d{2})
\*            \s+([\d,]+\.\d{2})", text, re.MULTILINE): None or Some(groups).
\* \s*(?:,*\s*)* matches every run of commas and white space; the order in
\* which its ends are tried does not show, since only one end is followed by
\* the literal TOTAL.
TotalMatch(text) ==
  Search(text, LAMBDA p :
    IF ~(p = 1 \/ Ch(text, p - 1) = "\n") THEN None ELSE
  FirstOk(GreedyEnds(text, p, IsCommaOrSpace, 0), LAMBDA e1 :
  FirstOk(LitEnds(text, e1, "TOTAL"), LAMBDA e2 :
  FirstOk(GreedyEnds(text, e2, IsSpace, 1), LAMBDA e3 :
  FirstOk(TotalNumberEnds(text, e3), LAMBDA e4 :
  FirstOk(GreedyEnds(text, e4, IsSpace, 1), LAMBDA e5 :
  FirstOk(TotalNumberEnds(text, e5), LAMBDA e6 :
  FirstOk(GreedyEnds(text, e6, IsSpace, 1), LAMBDA e7 :
  FirstOk(TotalNumberEnds(text, e7), LAMBDA e8 :
    Some(<<Sub(text, e3, e4 - 1), Sub(text, e5, e6 - 1),
           Sub(text, e7, e8 - 1)>>))))))))))

NoTotals == [total_withdrawal |-> None, total_deposit |-> None,
             final_balance |-> None]

\* The three assignments of the try block, in order: a float() that raises
\* leaves the assignments before it done and the ones after it undone.
AssignTotals(w, d, b) ==
  IF w = None THEN NoTotals
  ELSE IF d = None THEN [NoTotals EXCEPT !.total_withdrawal = w]
  ELSE IF b = None
       THEN [NoTotals EXCEPT !.total_withdrawal = w, !.total_deposit = d]
  ELSE [total_withdrawal |-> w, total_deposit |-> d, final_balance |-> b]

\* A mutant: float() rejects a number that has no digit before the point.
TotalFloatStrict(s) == IF Ch(s, 1) = "." THEN None ELSE PyFloat(s)

\* float() of a captured total, its commas removed
TotalFloat(s) == PyFloat(s)

\* total_match is the outcome of the search for the TOTAL line.
TotalsOf(total_match) ==
  IF total_match = None THEN NoTotals
  ELSE AssignTotals(TotalFloat(StripCommas(total_match[1][1])),
                    TotalFloat(StripCommas(total_match[1][2])),
                    TotalFloat(StripCommas(total_match[1][3])))

(***************************************************************************)
(* The inputs                                                              *)
(***************************************************************************)

\* The most lines a text has.
MaxLines == 2

ValidDates == <<"01/03/25", "02/03/25">>

InvalidDates == <<"31/02/25", "99/99/99">>

\* The first two amounts of a line: a deposit, and a withdrawal.
AmountPairs == {<<"0.00", "250.00">>, <<"15.00", "0.00">>}

\* '<date> <date> <description> <A1> <A2> <A3>'
ThreeAmountLine(c) ==
  c.dates[1] \o " " \o c.dates[2] \o " " \o c.desc \o " " \o c.a1 \o " "
    \o c.a2 \o " " \o c.a3

ThreeAmountCases ==
  {[dates |-> ValidDates, desc |-> "Cash Deposit", a1 |-> a[1], a2 |-> a[2],
    a3 |-> "5,000.00"] : a \in AmountPairs}
    \cup {[dates |-> InvalidDates, desc |-> "Cash Deposit", a1 |-> "1,000.00",
           a2 |-> "0.00", a3 |-> "5,000.00"]}

\* '<date> <date> <description> <reference> <A1> <A2> <A3>'
ReferenceLine(c) ==
  c.dates[1] \o " " \o c.dates[2] \o " " \o c.desc \o " " \o c.ref \o " "
    \o c.a1 \o " " \o c.a2 \o " " \o c.a3

ReferenceCases ==
  {[dates |-> ValidDates, desc |-> "Cash Deposit", ref |-> ref,
    a1 |-> "1,000.00", a2 |-> "0.00", a3 |-> "5,000.00"] :
     ref \in {"CHQ123"}}

OneAmountLine == "01/03/25 02/03/25 Cash Deposit 1,000.00 5,000.00"

HeaderLines ==
  {"Name John Doe",
   "Account No 123456",
   "Account Type Savings",
   "Account Statement for the period of 01/03/2025 to 31/03/2025",
   "Account Statement for the period of 31/02/2025 to 01/03/0025"}

MarkerLines ==
  {"  ",
   "Trans Date Post Date Particulars",
   "01/03/25 02/03/25 Trans Date 1.00 0.00 5.00",
   "01/03/25 02/03/25 Post Date 1.00 0.00 5.00",
   "01/03/25 02/03/25 Report taken on 1.00 0.00 5.00",
   "01/03/25 02/03/25 B/F 0.00 0.00 5.00",
   "01/03/25 02/03/25 Page 1.00 0.00 5.00"}

TotalLines ==
  {",, TOTAL 1,000.00 ,.00 2.00",
   "TOTAL 1.00 2.00"}

OtherLines == {OneAmountLine, "Thank you"}

LinePool ==
  HeaderLines \cup MarkerLines \cup TotalLines \cup OtherLines
    \cup {ThreeAmountLine(c) : c \in ThreeAmountCases}
    \cup {ReferenceLine(c) : c \in ReferenceCases}

\* "\n".join(ls)
RECURSIVE JoinLines(_)
JoinLines(ls) ==
  IF ls = <<>> THEN ""
  ELSE IF Len(ls) = 1 THEN ls[1]
  ELSE ls[1] \o "\n" \o JoinLines(Tail(ls))

Texts ==
  {JoinLines(ls) : ls \in UNION {[1..n -> LinePool] : n \in 0..MaxLines}}

DayTokens == {"01", "1", " 1", "3", "29", "30", "31", "00", "99", "001"}

MonthTokens == {"03", "3", "02", "2", "04", "12", "13", "00"}

YearTokens ==
  {"25", "24", "68", "69", "2025", "2024", "1900", "0025", "0000", "2",
   "202", "20255", "25 "}

DateTokens ==
  {d \o sep \o m \o sep \o y :
     d \in DayTokens, sep \in {"/", "-"}, m \in MonthTokens, y \in YearTokens}
    \cup {"", "today", " 01/03/25", "2025-03-01", "01/03-25"}

(***************************************************************************)
(* The state                                                               *)
(***************************************************************************)

VARIABLES
  text,          \* the text of the pages, joined by line breaks
  pc,            \* where parse_bank_statement is
  account_info,  \* the dictionary account_info
  lines,         \* text.split('\n')
  i,             \* the index in lines of the line the loop is to take next
  transactions,  \* the list transactions
  totals,        \* the dictionary totals
  date_str,      \* the argument of a call of convert_date_format
  date_pc,       \* where that call is
  returned       \* what that call returned

vars == <<text, pc, account_info, lines, i, transactions, totals, date_str,
          date_pc, returned>>

parse_vars == <<text, pc, account_info, lines, i, transactions, totals>>

date_vars == <<date_str, date_pc, returned>>

\* parse_bank_statement after the text is read and account_info is created.
Init ==
  /\ text \in Texts
  /\ pc = "account_info"
  /\ account_info = [bank |-> BankName]
  /\ lines = <<>>
  /\ i = 1
  /\ transactions = <<>>
  /\ totals = NoTotals
  /\ date_str = ""
  /\ date_pc = "idle"
  /\ returned = ""

\* The try block that fills account_info.
ExtractAccountInfo ==
  /\ pc = "account_info"
  /\ \E pads \in BOOLEAN : account_info' = AccountInfoOf(text, PeriodMatch(text), pads)
  /\ pc' = "split"
  /\ UNCHANGED <<text, lines, i, transactions, totals, date_vars>>

\* transactions = [] ... lines = text.split('\n')
SplitLines ==
  /\ pc = "split"
  /\ transactions' = <<>>
  /\ lines' = PySplitLines(text)
  /\ i' = 1
  /\ pc' = "loop"
  /\ UNCHANGED <<text, account_info, totals, date_vars>>

\* One iteration of "for line in lines".
LineStep ==
  /\ pc = "loop"
  /\ i <= Len(lines)
  /\ transactions' = LoopBody(transactions, lines[i])
  /\ i' = i + 1
  /\ UNCHANGED <<text, pc, account_info, lines, totals, date_vars>>

\* After the loop: the totals, and the return of the three parts.
ExtractTotals ==
  /\ pc = "loop"
  /\ i > Len(lines)
  /\ totals' = TotalsOf(TotalMatch(text))
  /\ pc' = "done"
  /\ UNCHANGED <<text, account_info, lines, i, transactions, date_vars>>

Next == ExtractAccountInfo \/ SplitLines \/ LineStep \/ ExtractTotals

Spec == Init /\ [][Next]_vars

\* A call of convert_date_format on a token.
DateInit ==
  /\ date_str \in DateTokens
  /\ date_pc = "called"
  /\ returned = ""
  /\ text = ""
  /\ pc = "idle"
  /\ account_info = [bank |-> BankName]
  /\ lines = <<>>
  /\ i = 1
  /\ transactions = <<>>
  /\ totals = NoTotals

Convert ==
  /\ date_pc = "called"
  /\ \E pads \in BOOLEAN : returned' = convert_date_format(date_str, pads)
  /\ date_pc' = "returned"
  /\ UNCHANGED <<date_str, parse_vars>>

DateNext == Convert

DateSpec == DateInit /\ [][DateNext]_vars

(***************************************************************************)
(* What the claims speak of                                                *)
(***************************************************************************)

\* The value, in hundredths, of an amount token with two fraction digits:
\* the number its digits spell, separators and point left out.
RECURSIVE AmountValue(_)
AmountValue(tok) ==
  IF tok = "" THEN 0
  ELSE IF IsDigit(Ch(tok, Len(tok)))
       THEN 10 * AmountValue(Sub(tok, 1, Len(tok) - 1))
              + DigitVal(Ch(tok, Len(tok)))
       ELSE AmountValue(Sub(tok, 1, Len(tok) - 1))

\* YYYY-MM-DD
IsCanonicalDate(s) ==
  /\ Len(s) = 10
  /\ DigitsAt(s, 1, 4) /\ Ch(s, 5) = "-"
  /\ DigitsAt(s, 6, 2) /\ Ch(s, 8) = "-"
  /\ DigitsAt(s, 9, 2)

\* The loop is about to take a line.
AtLine == pc = "loop" /\ i <= Len(lines)

\* The step appends exactly one transaction.
EmitsOne == Len(transactions') = Len(transactions) + 1

Emitted == transactions'[Len(transactions')]

\* C1: a line '<date> <date> <description> <A1> <A2> <A3>' without a
\* reference yields exactly one transaction, with withdrawal the value of the
\* whole A1, deposit that of A2, balance that of A3, a null reference and the
\* description words as description.
C1_ThreeAmountsMapped ==
  [][\A c \in ThreeAmountCases :
       (AtLine /\ lines[i] = ThreeAmountLine(c)) =>
         /\ EmitsOne
         /\ SubSeq(transactions', 1, Len(transactions)) = transactions
         /\ Emitted.withdrawal = AmountValue(c.a1)
         /\ Emitted.deposit = AmountValue(c.a2)
         /\ Emitted.balance = AmountValue(c.a3)
         /\ Emitted.reference = None
         /\ Emitted.description = c.desc]_vars

\* C2: the line with two dates, a description and one amount before the
\* balance is not dropped: it yields exactly one transaction, the amount as
\* withdrawal or as deposit and the other 0.00.
C2_OneAmountLineKept ==
  [][(AtLine /\ lines[i] = OneAmountLine) =>
       \E wd \in {<<0, 100000>>, <<100000, 0>>} :
         transactions' =
           Append(transactions,
                  [date |-> "2025-03-01", post_date |-> "2025-03-02",
                   description |-> "Cash Deposit", reference |-> None,
                   withdrawal |-> wd[1], deposit |-> wd[2],
                   balance |-> 500000])]_vars

\* C3: a reference token between the description and the amounts becomes the
\* transaction's reference, and the description ends before it.
C3_ReferenceCaptured ==
  [][\A c \in ReferenceCases :
       (AtLine /\ lines[i] = ReferenceLine(c)) =>
         /\ EmitsOne
         /\ Emitted.reference = Some(c.ref)
         /\ Emitted.description = c.desc]_vars

AllTotalsSet ==
  /\ totals.total_withdrawal # None
  /\ totals.total_deposit # None
  /\ totals.final_balance # None

\* C4: the three totals of a result are all null or all non-null.
C4_TotalsAllOrNothing == pc = "done" => (totals = NoTotals \/ AllTotalsSet)

\* A result whose TOTAL line had a number without a digit before the point.
C4_Witness ==
  /\ pc = "done"
  /\ AllTotalsSet
  /\ totals.total_deposit = Some(0)
  /\ PyIn(",.00", text)

\* C5: once the account information is extracted, account_info has every key
\* of its shape, a field that was not found being null.
C5_FixedShape ==
  pc \in {"split", "loop", "done"} =>
    /\ DOMAIN account_info =
         {"bank", "account_holder", "account_number", "account_type",
          "statement_period"}
    /\ DOMAIN account_info.statement_period = {"start_date", "end_date"}

\* A result for a text with a holder and nothing else of the header.
C5_Witness ==
  /\ pc = "done"
  /\ account_info.account_holder = Some("John Doe")
  /\ account_info.account_number = None
  /\ account_info.account_type = None
  /\ account_info.statement_period = [start_date |-> None, end_date |-> None]

DatesOf(ts) ==
  {ts[k].date : k \in 1..Len(ts)} \cup {ts[k].post_date : k \in 1..Len(ts)}

\* C6 as stated: every date and post_date of a transaction is YYYY-MM-DD.
C6_AllDatesCanonical == \A d \in DatesOf(transactions) : IsCanonicalDate(d)

\* A token DD/MM/YY that names no day of the calendar.
IsImpossibleDate(s) ==
  /\ Len(s) = 8
  /\ DigitsAt(s, 1, 2) /\ Ch(s, 3) = "/"
  /\ DigitsAt(s, 4, 2) /\ Ch(s, 6) = "/"
  /\ DigitsAt(s, 7, 2)
  /\ LET day == 10 * DigitVal(Ch(s, 1)) + DigitVal(Ch(s, 2))
         month == 10 * DigitVal(Ch(s, 4)) + DigitVal(Ch(s, 5))
         yy == 10 * DigitVal(Ch(s, 7)) + DigitVal(Ch(s, 8))
     IN  \/ month \notin 1..12
         \/ day = 0
         \/ day > (IF month = 2 THEN (IF yy % 4 = 0 THEN 29 ELSE 28)
                   ELSE IF month \in {4, 6, 9, 11} THEN 30 ELSE 31)

\* C6 amended: every date and post_date of a transaction is YYYY-MM-DD, or
\* is the line's token unchanged when that token names no calendar day.
C6_DatesCanonicalOrImpossible ==
  \A d \in DatesOf(transactions) : IsCanonicalDate(d) \/ IsImpossibleDate(d)

\* A result with a transaction of either kind.
C6_Witness ==
  /\ pc = "done"
  /\ \E k \in 1..Len(transactions) :
       transactions[k].date = "2025-03-01" /\ transactions[k].post_date = "2025-03-02"
  /\ \E k \in 1..Len(transactions) :
       transactions[k].date = "31/02/25" /\ transactions[k].post_date = "99/99/99"

\* The places of the slashes of a token, and its three parts when it has two.
Slashes(tok) == {p \in 1..Len(tok) : Ch(tok, p) = "/"}

FirstSlash(tok) == CHOOSE p \in Slashes(tok) : \A q \in Slashes(tok) : p <= q

LastSlash(tok) == CHOOSE p \in Slashes(tok) : \A q \in Slashes(tok) : q <= p

DayPart(tok) == Sub(tok, 1, FirstSlash(tok) - 1)

MonthPart(tok) == Sub(tok, FirstSlash(tok) + 1, LastSlash(tok) - 1)

YearPart(tok) == Sub(tok, LastSlash(tok) + 1, Len(tok))

AllDigits(s) == s # "" /\ DigitsAt(s, 1, Len(s))

\* The year a year part stands for: a two-digit year is 1969 to 2068.
YearMeant(y) ==
  IF Len(y) = 2
  THEN (IF AmountValue(y) <= 68 THEN 2000 ELSE 1900) + AmountValue(y)
  ELSE AmountValue(y)

\* The day is a day of the month of the year.
OnCalendar(day, month, year) ==
  /\ year >= 1
  /\ month \in 1..12
  /\ day >= 1
  /\ day <= (IF month = 2
             THEN (IF year % 4 = 0 /\ (year % 100 # 0 \/ year % 400 = 0)
                   THEN 29 ELSE 28)
             ELSE IF month \in {4, 6, 9, 11} THEN 30 ELSE 31)

\* A day of one or two digits (a single digit may follow one space), a month
\* of one or two digits and a year of two or of four digits, between
\* slashes, that name a day of the calendar.
IsAcceptedDate(tok) ==
  /\ Cardinality(Slashes(tok)) = 2
  /\ \/ AllDigits(DayPart(tok)) /\ Len(DayPart(tok)) \in {1, 2}
     \/ /\ Len(DayPart(tok)) = 2 /\ Ch(DayPart(tok), 1) = " "
        /\ IsDigit(Ch(DayPart(tok), 2))
  /\ AllDigits(MonthPart(tok)) /\ Len(MonthPart(tok)) \in {1, 2}
  /\ AllDigits(YearPart(tok)) /\ Len(YearPart(tok)) \in {2, 4}
  /\ OnCalendar(AmountValue(DayPart(tok)), AmountValue(MonthPart(tok)),
                YearMeant(YearPart(tok)))

\* The same, in fixed width: DD/MM/YY or DD/MM/YYYY.
IsFixedWidthDate(tok) ==
  /\ IsAcceptedDate(tok)
  /\ AllDigits(DayPart(tok)) /\ Len(DayPart(tok)) = 2
  /\ Len(MonthPart(tok)) = 2

\* out is YYYY-MM-DD for the day and the month of tok.
SameDayCanonical(tok, out) ==
  /\ IsCanonicalDate(out)
  /\ AmountValue(Sub(out, 6, 7)) = AmountValue(MonthPart(tok))
  /\ AmountValue(Sub(out, 9, 10)) = AmountValue(DayPart(tok))

\* C7 as stated: a valid fixed-width DD/MM/YY or DD/MM/YYYY token comes back
\* as YYYY-MM-DD for the same day and month, every other token unchanged.
C7_FixedWidthOrUnchanged ==
  date_pc = "returned" =>
    IF IsFixedWidthDate(date_str) THEN SameDayCanonical(date_str, returned)
    ELSE returned = date_str

\* C7 amended: a token with a day of one or two digits (a single digit may
\* follow a space), a month of one or two digits and a year of two or four
\* digits that names a calendar day comes back as year-MM-DD for the same
\* day and month, the year two-digit-first (1969 to 2068) and in four digits
\* (below 1000: in four digits or without its leading zeros, as the
\* platform's strftime writes it); every other token comes back unchanged.
C7_AcceptedOrUnchanged ==
  date_pc = "returned" =>
    IF IsAcceptedDate(date_str)
    THEN /\ AmountValue(Sub(returned, Len(returned) - 4, Len(returned) - 3))
              = AmountValue(MonthPart(date_str))
         /\ AmountValue(Sub(returned, Len(returned) - 1, Len(returned)))
              = AmountValue(DayPart(date_str))
         /\ Sub(returned, Len(returned) - 5, Len(returned) - 5) = "-"
         /\ Sub(returned, Len(returned) - 2, Len(returned) - 2) = "-"
         /\ AllDigits(Sub(returned, 1, Len(returned) - 6))
         /\ AmountValue(Sub(returned, 1, Len(returned) - 6))
              = YearMeant(YearPart(date_str))
         /\ \/ IsCanonicalDate(returned)
            \/ YearMeant(YearPart(date_str)) < 1000
    ELSE returned = date_str

\* A token that is not fixed-width and is converted.
C7_Witness ==
  date_pc = "returned" /\ date_str = "1/3/25" /\ returned = "2025-03-01"

\* What the loop makes of a text that is this line alone.
AloneOf(line) == LoopBody(<<>>, line)

\* The transactions of the first n lines of ls, each line taken alone.
RECURSIVE AloneUpTo(_, _)
AloneUpTo(ls, n) ==
  IF n = 0 THEN <<>> ELSE AloneUpTo(ls, n - 1) \o AloneOf(ls[n])

\* C8: the transactions produced for a text are the transactions of each of
\* its lines alone, at most one per line, in line order.
C8_LinesIndependent ==
  pc = "done" =>
    /\ transactions = AloneUpTo(lines, Len(lines))
    /\ \A k \in 1..Len(lines) : Len(AloneOf(lines[k])) <= 1

\* A line with a transaction, then a line that is tried and does not match.
C8_Witness ==
  /\ pc = "done"
  /\ Len(lines) = 2
  /\ Len(transactions) = 1
  /\ ~SkipLine(lines[2])
  /\ transaction_pattern_match(PyStrip(lines[2])) = None

StartsWithDate(line) ==
  LET t == PyStrip(line)
  IN  DigitsAt(t, 1, 2) /\ Ch(t, 3) = "/" /\ DigitsAt(t, 4, 2)
        /\ Ch(t, 6) = "/" /\ DigitsAt(t, 7, 2)

\* No header anchor, no TOTAL, and no line that starts with a date.
AnchorFree(t) ==
  /\ \A a \in {"Name", "Account No", "Account Type",
               "Account Statement for the period of", "TOTAL"} : ~PyIn(a, t)
  /\ LET ls == PySplitLines(t)
     IN  \A k \in 1..Len(ls) : ~StartsWithDate(ls[k])

\* C9: for the empty text and for a text without anchors, transaction lines
\* and TOTAL line, the result has the bank, every other field of
\* account_info null, no transaction and null totals.
C9_EmptyResult ==
  (pc = "done" /\ AnchorFree(text)) =>
    /\ account_info =
         [bank |-> "Islami Bank Bangladesh PLC.", account_holder |-> None,
          account_number |-> None, account_type |-> None,
          statement_period |-> [start_date |-> None, end_date |-> None]]
    /\ transactions = <<>>
    /\ totals = [total_withdrawal |-> None, total_deposit |-> None,
                 final_balance |-> None]

\* A result for a text of two lines without anchors.
C9_Witness ==
  /\ pc = "done"
  /\ AnchorFree(text)
  /\ PyIn("Thank you", text)
  /\ Len(lines) = 2

Markers == {"Trans Date", "Post Date", "Report taken on", "B/F", "Page"}

IsBlank(line) == \A p \in 1..Len(line) : IsSpace(Ch(line, p))

\* C10: a blank line, or a line that has a marker anywhere in it, adds no
\* transaction; the text that is the one line "Trans Date Post Date
\* Particulars" yields none.
C10_MarkedLinesSkipped ==
  /\ [][(AtLine /\ (IsBlank(lines[i]) \/ \E m \in Markers : PyIn(m, lines[i])))
          => transactions' = transactions]_vars
  /\ []((pc = "done" /\ text = "Trans Date Post Date Particulars")
          => transactions = <<>>)

\* A line with the marker Page that the pattern would match was passed over.
C10_Witness ==
  /\ pc = "done"
  /\ Len(lines) = 2
  /\ PyIn("Page", lines[2])
  /\ transaction_pattern_match(PyStrip(lines[2])) # None
  /\ Len(transactions) = 1

====
